---- MODULE Spec2Model ----
(***************************************************************************)
(* Model of classifier.ipynb: the notebook that runs a pretrained wildlife *)
(* detector over a folder of images, saves the detections as JSON, saves   *)
(* the detection images and copies them into "Animal" / "No-animal".       *)
(*                                                                         *)
(* State is the Jupyter kernel (the variables the cells define) and the    *)
(* file system the cells act on.  A path is a sequence of components, a    *)
(* confidence is an integer number of steps of 1/MaxConf.                  *)
(***************************************************************************)
EXTENDS Integers, Sequences, FiniteSets, TLC

\* ---------------------------------------------------------------- bounds
NumImages == 2      \* images in the input folder
MaxDet    == 2      \* detections the model reports over the whole batch
MaxConf   == 2      \* confidences and thresholds are k/MaxConf, k \in 0..MaxConf

AllNames == <<"img1.jpg", "img2.jpg", "img3.jpg", "img4.jpg">>
Names    == {AllNames[i] : i \in 1..NumImages}
Conf     == 0..MaxConf
Category == 0..1
ExcludeChoices == {{}, {1}}

\* ------------------------------------------------- notebook variables
tgt_folder_path == <<"imgs">>
output_path     == <<"output">>
classified_path == <<"classified">>
json_file       == output_path \o <<"detection_results.json">>

VARIABLES
    pc,                    \* "idle", or the next statement of cell f63310ab
    kernel,                \* names the kernel has a value for
    threshold,             \* kernel variable, set by cell 735a3f71
    results,               \* kernel variable, set by cell 561eff0c
    exclude_category_ids,  \* the list written in the call of save_detection_json
    model_output,          \* what the detector reports on the input folder
    fs,                    \* files: path -> content
    dirs,                  \* directories that exist
    ret,                   \* {value of the last detection_folder_separation call}
    routed,                \* img_id -> folder chosen by the last separation
    json_writes,           \* writes of json_file in the current run of the cell
    last_args,             \* {arguments of the last completed separation}
    repeated               \* the last separation had the arguments of the one before

vars == <<pc, kernel, threshold, results, exclude_category_ids, model_output, fs, dirs,
          ret, routed, json_writes, last_args, repeated>>

\* ------------------------------------------------------------- helpers
Original(n)  == [kind |-> "original",  of |-> n]
Annotated(n) == [kind |-> "annotated", of |-> n]

Basename(p) == p[Len(p)]

IsPrefix(pre, p) == Len(pre) <= Len(p) /\ SubSeq(p, 1, Len(pre)) = pre

\* exclude_file_path: the folder prefix is removed from the image path
StripPrefix(p, pre) ==
    IF IsPrefix(pre, p) THEN SubSeq(p, Len(pre) + 1, Len(p)) ELSE p

\* a file written or overwritten at path p
WriteFile(f, p, c) == (p :> c) @@ f

\* (mutant) a move: the source is gone afterwards
MoveFile(f, src, dst) ==
    [p \in (DOMAIN f \cup {dst}) \ {src} |-> IF p = dst THEN f[src] ELSE f[p]]

\* (mutant) a copy that never overwrites: a second copy gets a new name
CopyKeepBoth(f, src, dst) ==
    IF dst \in DOMAIN f THEN WriteFile(f, dst \o <<"copy">>, f[src])
    ELSE WriteFile(f, dst, f[src])

\* the file is copied: the destination gets the source's content (overwriting a
\* file of that name), the source stays
CopyFile(f, src, dst) == WriteFile(f, dst, f[src])

\* the tagged detections of the batch, grouped by image in listing order
TaggedDets == [img : Names, confidence : Conf, category : Category]
Batches == {b \in UNION {[1..k -> TaggedDets] : k \in 0..MaxDet} :
              \A i \in 1..(Len(b) - 1) :
                 \E x, y \in 1..NumImages :
                    x <= y /\ AllNames[x] = b[i].img /\ AllNames[y] = b[i + 1].img}

StripTag(d) == [confidence |-> d.confidence, category |-> d.category]
DetsOf(b, n) ==
    LET own == SelectSeq(b, LAMBDA d : d.img = n)
    IN  [i \in 1..Len(own) |-> StripTag(own[i])]

\* batch_image_detection: one record per image of the folder, in listing order
BatchResult(b) ==
    [i \in 1..NumImages |->
        [img_id |-> tgt_folder_path \o <<AllNames[i]>>,
         detections |-> DetsOf(b, AllNames[i])]]

Init ==
    /\ pc = "idle"
    /\ kernel = {}
    /\ threshold = 0
    /\ results = << >>
    /\ exclude_category_ids \in ExcludeChoices
    /\ \E b \in Batches : model_output = BatchResult(b)
    /\ fs = [p \in {tgt_folder_path \o <<n>> : n \in Names} |-> Original(Basename(p))]
    /\ dirs = {tgt_folder_path}
    /\ ret = {}
    /\ routed = << >>
    /\ json_writes = 0
    /\ last_args = {}
    /\ repeated = FALSE

\* ------------------------------------------------------ library calls
\* save_detection_json(results, json_file, exclude_category_ids, exclude_file_path):
\* one annotation per record, without the detections of the excluded categories
\* and with the folder prefix removed from the image path
\* (mutant) the filter inverted
KeepExcluded(dets, excl) == SelectSeq(dets, LAMBDA d : d.category \in excl)

KeepDetections(dets, excl) == SelectSeq(dets, LAMBDA d : d.category \notin excl)

save_detection_json(res, excl, exclude_file_path) ==
    [kind |-> "json",
     annotations |->
        [i \in 1..Len(res) |->
            [img_id     |-> StripPrefix(res[i].img_id, exclude_file_path),
             detections |-> KeepDetections(res[i].detections, excl)]]]

\* save_detection_images(results, output_path): one rendering per record, written
\* into the output folder under the image's file name
RECURSIVE save_detection_images(_, _, _, _)
save_detection_images(f, res, out, i) ==
    IF i > Len(res) THEN f
    ELSE LET n == Basename(res[i].img_id)
         IN  save_detection_images(WriteFile(f, out \o <<n>>, Annotated(n)), res, out, i + 1)

\* "A detection is considered positive if the prediction confidence is higher
\* than the threshold"
\* (mutant) a confidence equal to the threshold counts
PositiveAtLeast(dets, t) == \E i \in 1..Len(dets) : dets[i].confidence >= t

Positive(dets, t) == \E i \in 1..Len(dets) : dets[i].confidence > t

TargetFolder(dets, t) == IF Positive(dets, t) THEN "Animal" ELSE "No-animal"

OtherFolder(folder) == IF folder = "Animal" THEN "No-animal" ELSE "Animal"

\* (mutant) records without detections are passed over
RECURSIVE SeparateSkipEmpty(_, _, _, _, _, _)
SeparateSkipEmpty(annots, i, img_path, destination_path, t, acc) ==
    IF i > Len(annots) THEN acc
    ELSE LET item   == annots[i]
             folder == TargetFolder(item.detections, t)
             src    == img_path \o item.img_id
             dst    == destination_path \o <<folder>> \o item.img_id
         IN  IF item.detections = << >>
             THEN SeparateSkipEmpty(annots, i + 1, img_path, destination_path, t,
                     [acc EXCEPT !.routed = (item.img_id :> folder) @@ acc.routed])
             ELSE SeparateSkipEmpty(annots, i + 1, img_path, destination_path, t,
                     [fs     |-> CopyFile(acc.fs, src, dst),
                      routed |-> (item.img_id :> folder) @@ acc.routed,
                      count  |-> acc.count + 1])

\* (mutant) the loop ends at the first record without detections
RECURSIVE SeparateUntilEmpty(_, _, _, _, _, _)
SeparateUntilEmpty(annots, i, img_path, destination_path, t, acc) ==
    IF i > Len(annots) \/ annots[i].detections = << >> THEN acc
    ELSE LET item   == annots[i]
             folder == TargetFolder(item.detections, t)
             src    == img_path \o item.img_id
             dst    == destination_path \o <<folder>> \o item.img_id
         IN  SeparateUntilEmpty(annots, i + 1, img_path, destination_path, t,
                 [fs     |-> CopyFile(acc.fs, src, dst),
                  routed |-> (item.img_id :> folder) @@ acc.routed,
                  count  |-> acc.count + 1])

\* detection_folder_separation(json_file, img_path, destination_path, threshold):
\* every annotation of the JSON, in order, is copied from img_path into the
\* folder of its verdict; the value is the number of files separated
RECURSIVE SeparateFrom(_, _, _, _, _, _)
SeparateFrom(annots, i, img_path, destination_path, t, acc) ==
    IF i > Len(annots) THEN acc
    ELSE LET item   == annots[i]
             folder == TargetFolder(item.detections, t)
             src    == img_path \o item.img_id
             dst    == destination_path \o <<folder>> \o item.img_id
         IN  SeparateFrom(annots, i + 1, img_path, destination_path, t,
                 [fs     |-> CopyFile(acc.fs, src, dst),
                  routed |-> (item.img_id :> folder) @@ acc.routed,
                  count  |-> acc.count + 1])

detection_folder_separation(f, json, img_path, destination_path, t) ==
    SeparateFrom(f[json].annotations, 1, img_path, destination_path, t,
                 [fs |-> f, routed |-> << >>, count |-> 0])

\* (mutant) the classified folder is not created
MakeOutputDir(d) == d \cup {output_path}

\* os.makedirs(output_path, exist_ok=True); os.makedirs(classified_path, exist_ok=True)
MakeDirs(d) == d \cup {output_path, classified_path}

\* ------------------------------------------------------------- the cells
\* cell 735a3f71: the variable definitions; the threshold is the reader's to set
Cell_Variables ==
    /\ pc = "idle"
    /\ \E t \in Conf : threshold' = t
    /\ kernel' = kernel \cup {"threshold"}
    /\ UNCHANGED <<pc, results, exclude_category_ids, model_output, fs, dirs,
                   ret, routed, json_writes, last_args, repeated>>

\* cell 561eff0c: batch detection over tgt_folder_path
Cell_Detect ==
    /\ pc = "idle"
    /\ "threshold" \in kernel
    /\ results' = model_output
    /\ kernel' = kernel \cup {"results"}
    /\ UNCHANGED <<pc, threshold, exclude_category_ids, model_output, fs, dirs,
                   ret, routed, json_writes, last_args, repeated>>

\* cell f63310ab, first three statements
Cell_Makedirs ==
    /\ pc = "idle"
    /\ "threshold" \in kernel
    /\ dirs' = MakeDirs(dirs)
    /\ json_writes' = 0
    /\ pc' = "save_json"
    /\ UNCHANGED <<kernel, threshold, results, exclude_category_ids, model_output, fs,
                   ret, routed, last_args, repeated>>

\* cell f63310ab, save_detection_json; with results undefined the statement
\* raises NameError and the cell stops
Cell_SaveJson ==
    /\ pc = "save_json"
    /\ IF "results" \notin kernel
       THEN /\ pc' = "idle"
            /\ UNCHANGED <<fs, json_writes>>
       ELSE /\ fs' = WriteFile(fs, json_file,
                       save_detection_json(results, exclude_category_ids, tgt_folder_path))
            /\ json_writes' = json_writes + 1
            /\ pc' = "save_images"
    /\ UNCHANGED <<kernel, threshold, results, exclude_category_ids, model_output, dirs,
                   ret, routed, last_args, repeated>>

\* cell f63310ab, save_detection_images
Cell_SaveImages ==
    /\ pc = "save_images"
    /\ fs' = save_detection_images(fs, results, output_path, 1)
    /\ pc' = "separate"
    /\ UNCHANGED <<kernel, threshold, results, exclude_category_ids, model_output, dirs,
                   ret, routed, json_writes, last_args, repeated>>

\* cell f63310ab, detection_folder_separation
Cell_Separate ==
    /\ pc = "separate"
    /\ LET out == detection_folder_separation(fs, json_file, output_path,
                                              classified_path, threshold)
       IN  /\ fs' = out.fs
           /\ routed' = out.routed
           /\ ret' = {out.count}
    /\ dirs' = dirs \cup {classified_path \o <<"Animal">>, classified_path \o <<"No-animal">>}
    /\ last_args' = {[json |-> fs[json_file], threshold |-> threshold]}
    /\ repeated' = (last_args' = last_args)
    /\ pc' = "idle"
    /\ UNCHANGED <<kernel, threshold, results, exclude_category_ids, model_output,
                   json_writes>>

Next ==
    \/ Cell_Variables
    \/ Cell_Detect
    \/ Cell_Makedirs
    \/ Cell_SaveJson
    \/ Cell_SaveImages
    \/ Cell_Separate

Spec == Init /\ [][Next]_vars

\* ------------------------------------------------------------ properties
SeparationDone == pc = "idle" /\ last_args # {}
LastArgs       == CHOOSE a \in last_args : TRUE
Annotations    == fs[json_file].annotations
InFolder(f, folder, id) == (classified_path \o <<folder>> \o id) \in DOMAIN f
ClassifiedPaths(f) == {p \in DOMAIN f : IsPrefix(classified_path, p)}
RangeOf(seq) == {seq[i] : i \in 1..Len(seq)}
Perms(n) == {g \in [1..n -> 1..n] : \A i, j \in 1..n : g[i] = g[j] => i = j}

C6_CopiesNotMoves ==
    [][pc = "separate" =>
          /\ \A p \in DOMAIN fs :
                ~IsPrefix(classified_path, p) => p \in DOMAIN fs' /\ fs'[p] = fs[p]
          /\ \A p \in DOMAIN fs' \ DOMAIN fs :
                \/ IsPrefix(classified_path \o <<"Animal">>, p)
                \/ IsPrefix(classified_path \o <<"No-animal">>, p)]_vars

C6_Witness ==
    /\ SeparationDone
    /\ ClassifiedPaths(fs) # {}
    /\ \A item \in RangeOf(Annotations) : (output_path \o item.img_id) \in DOMAIN fs

\* C7: every file under the classified folder is a copy of an original image of
\* the input folder, under its original name.
C7_OnlyOriginals ==
    \A p \in ClassifiedPaths(fs) :
        /\ (tgt_folder_path \o <<Basename(p)>>) \in DOMAIN fs
        /\ fs[p] = fs[tgt_folder_path \o <<Basename(p)>>]

C9_PipelineOrder ==
    [][/\ json_writes' > json_writes => "results" \in kernel
       /\ json_writes' <= 1
       /\ pc = "separate" =>
             /\ json_writes = 1
             /\ json_file \in DOMAIN fs
             /\ fs[json_file].annotations
                  = [i \in 1..Len(results) |->
                       [img_id |-> <<Basename(results[i].img_id)>>,
                        detections |-> SelectSeq(results[i].detections,
                                          LAMBDA d : d.category \notin exclude_category_ids)]]
       /\ \A p \in DOMAIN fs' :
             (p \notin DOMAIN fs \/ fs'[p] # fs[p]) => <<p[1]>> \in dirs
       /\ "results" \in kernel => results' = results /\ results = model_output]_vars

C9_Witness == SeparationDone /\ json_writes = 1 /\ "results" \in kernel

====
